---- MODULE Spec2Model ----
(***************************************************************************)
(* A model of pdf-summarizer.py: the linear pipeline run by main()         *)
(*   extract_text_from_pdf -> get_google_api_key -> generate_summary ->    *)
(*   Crossref lookup -> write of the markdown file.                        *)
(* The PDF library, the generative backend, the Crossref service and the   *)
(* file system are the environment: their answers are drawn from small     *)
(* sets.  Python values are records tagged with their type; a dict is a    *)
(* record holding the set of keys it has.  Text written to the output file *)
(* is a string, built with \o exactly as the f-strings build it.           *)
(***************************************************************************)
EXTENDS Naturals, Sequences, FiniteSets, TLC

VARIABLES
    pc,             \* the statement of main() about to run, "Done" once the process ended
    pdf,            \* the input file as the file system holds it
    env,            \* the environment variable GOOGLE_API_KEY
    keyfile,        \* the file ~/.config/gemini.token
    document_text,  \* main's local document_text
    cred,           \* what get_google_api_key did: its exception, its value, whether it opened the file
    response,       \* what the generative backend answered
    gen,            \* what generate_summary did: its exception or value, what it printed
    summary,        \* main's local summary
    lookup,         \* what happened at the Crossref lookup
    cr_queries,     \* number of queries sent to Crossref
    gen_calls,      \* number of calls of model.generate_content
    citation,       \* main's local citation
    outfile,        \* the output file
    out_opened,     \* whether open(output_filename, 'wt') was called
    written,        \* whether the with-block of the write ran to its end
    stdout,         \* lines printed to the standard output
    stderr,         \* lines printed to the error stream
    exit_status     \* the status of the process, read when pc = "Done"

vars == <<pc, pdf, env, keyfile, document_text, cred, response, gen, summary,
          lookup, cr_queries, gen_calls, citation, outfile, out_opened, written,
          stdout, stderr, exit_status>>

(***************************************************************************)
(* Bounds.                                                                 *)
(***************************************************************************)
MaxAuthors == 2      \* authors in a summary
MaxCitAuthors == 2   \* authors in a Crossref record

(***************************************************************************)
(* Strings as sequences of characters, for str.strip().                    *)
(***************************************************************************)
Whitespace == {" ", "\n"}
\* contents of the credential file: empty, a bare token, a token in whitespace,
\* whitespace alone
TokenFiles == {<<>>, <<"k">>, <<" ", "k", "\n">>, <<"\n">>}

RECURSIVE lstrip(_)
lstrip(s) ==
    IF s # <<>> /\ Head(s) \in Whitespace THEN lstrip(Tail(s)) ELSE s

RECURSIVE rstrip(_)
rstrip(s) ==
    IF s # <<>> /\ s[Len(s)] \in Whitespace
    THEN rstrip(SubSeq(s, 1, Len(s) - 1))
    ELSE s

strip(s) == rstrip(lstrip(s))

SeqsUpTo(S, n) == UNION {[1..k -> S] : k \in 0..n}

(***************************************************************************)
(* The environment of the credential lookup.                               *)
(***************************************************************************)
Environs ==
    {[set |-> FALSE, value |-> <<>>],
     [set |-> TRUE, value |-> <<>>],
     [set |-> TRUE, value |-> <<"e">>]}

KeyFiles ==
    {[state |-> "absent", content |-> <<>>],
     [state |-> "unreadable", content |-> <<>>]}
    \cup {[state |-> "present", content |-> c] : c \in TokenFiles}

(***************************************************************************)
(* get_google_api_key: the environment variable when it is truthy, else    *)
(* the stripped content of the file; FileNotFoundError is passed over and  *)
(* GoogleAPIKeyError is raised only when google_api_key is None, that is   *)
(* when the variable is unset.  opened: open() was called on the file.     *)
(***************************************************************************)
get_google_api_key_file_first(e, f) ==
    IF f.state = "present"
    THEN [exc |-> "", key |-> strip(f.content), opened |-> TRUE]
    ELSE IF f.state = "unreadable"
    THEN [exc |-> "PermissionError", key |-> <<>>, opened |-> TRUE]
    ELSE IF e.set /\ e.value # <<>>
    THEN [exc |-> "", key |-> e.value, opened |-> TRUE]
    ELSE [exc |-> "GoogleAPIKeyError", key |-> <<>>, opened |-> TRUE]

get_google_api_key(e, f) ==
    IF e.set /\ e.value # <<>>
    THEN [exc |-> "", key |-> e.value, opened |-> FALSE]
    ELSE IF f.state = "present"
    THEN [exc |-> "", key |-> strip(f.content), opened |-> TRUE]
    ELSE IF f.state = "unreadable"
    THEN [exc |-> "PermissionError", key |-> <<>>, opened |-> TRUE]
    ELSE IF ~e.set
    THEN [exc |-> "GoogleAPIKeyError", key |-> <<>>, opened |-> TRUE]
    ELSE [exc |-> "", key |-> e.value, opened |-> TRUE]

(***************************************************************************)
(* extract_text_from_pdf: the page texts concatenated, no separator.       *)
(***************************************************************************)
PdfFiles ==
    {[state |-> "missing", pages |-> <<>>],
     [state |-> "corrupt", pages |-> <<>>],
     [state |-> "ok", pages |-> <<"Title: X. ", "Authors: Y.">>]}

RECURSIVE concat_pages(_)
concat_pages(pages) ==
    IF pages = <<>> THEN "" ELSE Head(pages) \o concat_pages(Tail(pages))

extract_text_from_pdf(p) ==
    IF p.state = "missing" THEN [exc |-> "FileNotFoundError", text |-> ""]
    ELSE IF p.state = "corrupt" THEN [exc |-> "PdfReadError", text |-> ""]
    ELSE [exc |-> "", text |-> concat_pages(p.pages)]

(***************************************************************************)
(* Python values.  A dict holds the set of its keys; a field whose key is  *)
(* absent keeps a fixed filler that no operator reads.                     *)
(***************************************************************************)
Unbound == [type |-> "unbound"]

SummaryKeys == {"title", "authors", "synopsis"}
Titles == {"", "T"}
AuthorNames == {"", "A", "B"}
Synopses == {"", "S"}

SummaryDicts ==
    {[type |-> "dict", keys |-> K,
      title |-> IF "title" \in K THEN t ELSE "",
      authors |-> IF "authors" \in K THEN a ELSE <<>>,
      synopsis |-> IF "synopsis" \in K THEN s ELSE ""] :
        K \in SUBSET SummaryKeys, t \in Titles,
        a \in SeqsUpTo(AuthorNames, MaxAuthors), s \in Synopses}

\* JSON documents whose top-level value is not an object
NonObjects == {[type |-> "list"], [type |-> "str"], [type |-> "NoneType"]}

JsonValues == SummaryDicts \cup NonObjects

(***************************************************************************)
(* What model.generate_content gives: an exception, or a response whose    *)
(* text json.loads rejects (json = FALSE) or decodes to value.             *)
(***************************************************************************)
BackendAnswers ==
    {[outcome |-> "error", json |-> FALSE, value |-> Unbound],
     [outcome |-> "text", json |-> FALSE, value |-> Unbound]}
    \cup {[outcome |-> "text", json |-> TRUE, value |-> v] : v \in JsonValues}

NoAnswer == [outcome |-> "none", json |-> FALSE, value |-> Unbound]

(***************************************************************************)
(* generate_summary: both except clauses print to the standard output and  *)
(* fall through to "return summary", which raises UnboundLocalError since  *)
(* summary was never assigned; any decoded JSON value is returned as is.   *)
(***************************************************************************)
generate_summary_default(answer) ==
    IF answer.outcome = "error"
    THEN [exc |-> "",
          value |-> [type |-> "dict", keys |-> {}, title |-> "", authors |-> <<>>, synopsis |-> ""],
          out |-> <<"An error occurred during content generation">>]
    ELSE IF ~answer.json
    THEN [exc |-> "",
          value |-> [type |-> "dict", keys |-> {}, title |-> "", authors |-> <<>>, synopsis |-> ""],
          out |-> <<"Error decoding JSON response", "Raw response text">>]
    ELSE [exc |-> "", value |-> answer.value, out |-> <<>>]

generate_summary(answer) ==
    IF answer.outcome = "error"
    THEN [exc |-> "UnboundLocalError", value |-> Unbound,
          out |-> <<"An error occurred during content generation">>]
    ELSE IF ~answer.json
    THEN [exc |-> "UnboundLocalError", value |-> Unbound,
          out |-> <<"Error decoding JSON response", "Raw response text">>]
    ELSE [exc |-> "", value |-> answer.value, out |-> <<>>]

NoGen == [exc |-> "", value |-> Unbound, out |-> <<>>]

(***************************************************************************)
(* The test of line 187: summary.get('authors') and summary.get('title').  *)
(***************************************************************************)
truthy_title(s) == "title" \in s.keys /\ s.title # ""
truthy_authors(s) == "authors" \in s.keys /\ s.authors # <<>>

should_lookup_authors_only(s) == truthy_authors(s)

should_lookup(s) == truthy_authors(s) /\ truthy_title(s)

(***************************************************************************)
(* Crossref records.                                                       *)
(***************************************************************************)
CitationKeys == {"author", "title", "container-title", "published"}

CitAuthors ==
    {[keys |-> {"given", "family"}, given |-> "Ada", family |-> "Lovelace"],
     [keys |-> {"family"}, given |-> "", family |-> "Hopper"]}

CitTitles == {<<>>, <<"On X">>}
CitContainers == {<<"J">>}

\* published: the dict may lack 'date-parts'; date-parts is a list of lists
Published ==
    {[has_parts |-> FALSE, parts |-> <<>>],
     [has_parts |-> TRUE, parts |-> <<>>],
     [has_parts |-> TRUE, parts |-> << <<2020>> >>]}

CitationDicts ==
    {[type |-> "dict", keys |-> K,
      author |-> IF "author" \in K THEN a ELSE <<>>,
      title |-> IF "title" \in K THEN t ELSE <<>>,
      container |-> IF "container-title" \in K THEN c ELSE <<>>,
      published |-> IF "published" \in K THEN p ELSE [has_parts |-> FALSE, parts |-> <<>>]] :
        K \in SUBSET CitationKeys, a \in SeqsUpTo(CitAuthors, MaxCitAuthors),
        t \in CitTitles, c \in CitContainers, p \in Published}

\* cr.works(...): an exception (transport, HTTP), or a result dict with at
\* most one item (limit=1)
CrossrefAnswers ==
    {[outcome |-> "error", items |-> <<>>],
     [outcome |-> "results", items |-> <<>>]}
    \cup {[outcome |-> "results", items |-> <<c>>] : c \in CitationDicts}

(***************************************************************************)
(* The write of lines 208-236, one record per file.write (or per           *)
(* expression that can raise): the text it adds, or the exception it ends  *)
(* the with-block with.                                                    *)
(***************************************************************************)
W(text) == [exc |-> "", text |-> text]
R(exc) == [exc |-> exc, text |-> ""]

RECURSIVE join(_, _)
join(strs, sep) ==
    IF strs = <<>> THEN ""
    ELSE IF Len(strs) = 1 THEN strs[1]
    ELSE strs[1] \o sep \o join(Tail(strs), sep)

\* f"## {summary.get('title', "N/A")}\n\n": the default is used only when the key is absent
title_line(s) ==
    "## " \o (IF "title" \in s.keys THEN s.title ELSE "N/A") \o "\n\n"

\* ', '.join(summary.get('authors', None)): join(None) raises TypeError
authors_line(s) ==
    IF "authors" \in s.keys THEN W(join(s.authors, ", ") \o "\n\n") ELSE R("TypeError")

synopsis_line(s) ==
    (IF "synopsis" \in s.keys THEN s.synopsis ELSE "") \o "\n\n"

summary_writes(s) ==
    <<W(title_line(s)), W("### Authors\n"), authors_line(s),
      W("### Synopsis\n"), W(synopsis_line(s)), W("### Significance\n\n")>>

\* author.get('given', ''), author.get('family', '')
full_name(a) ==
    (IF "given" \in a.keys THEN a.given ELSE "") \o " "
        \o (IF "family" \in a.keys THEN a.family ELSE "")

\* lines 218-223: the append is outside the for loop, so author_list holds
\* one entry, built from the loop variables as the last iteration left them
author_list(authors) == <<full_name(authors[Len(authors)])>>

\* lines 217-224
author_writes(c) ==
    LET authors == IF "author" \in c.keys THEN c.author ELSE <<>>
    IN  IF authors # <<>> THEN <<W(join(author_list(authors), ", ") \o ", ")>> ELSE <<>>

\* line 225: citation.get('title')[0]
cit_title_write(c) ==
    IF "title" \notin c.keys THEN R("TypeError")
    ELSE IF c.title = <<>> THEN R("IndexError")
    ELSE W("\"" \o c.title[1] \o ",\"")

\* lines 226-227
container_writes(c) ==
    IF "container-title" \in c.keys /\ c.container # <<>>
    THEN <<W(c.container[1])>> ELSE <<>>

\* lines 230-235: without 'published' or without 'date-parts' the default
\* [['N/A']] is taken, and its 'N/A' is truthy
year_writes(c) ==
    IF ~("published" \in c.keys /\ c.published.has_parts) THEN <<W(", " \o "N/A")>>
    ELSE IF c.published.parts = <<>> THEN <<>>
    ELSE IF c.published.parts[1][1] # 0
         THEN <<W(", " \o ToString(c.published.parts[1][1]))>>
         ELSE <<>>

reference_writes(c) ==
    <<W("### Reference\n")>> \o author_writes(c) \o <<cit_title_write(c)>>
        \o container_writes(c) \o year_writes(c) \o <<W("\n")>>

\* line 215, "if citation:": an unbound local raises, an empty dict is falsy
citation_writes(c) ==
    IF c.type = "unbound" THEN <<R("UnboundLocalError")>>
    ELSE IF c.keys = {} THEN <<>>
    ELSE reference_writes(c)

RECURSIVE run_writes(_, _)
run_writes(steps, text) ==
    IF steps = <<>> THEN [exc |-> "", text |-> text]
    ELSE IF Head(steps).exc # "" THEN [exc |-> Head(steps).exc, text |-> text]
    ELSE run_writes(Tail(steps), text \o Head(steps).text)

write_output(s, c) == run_writes(summary_writes(s) \o citation_writes(c), "")

(***************************************************************************)
(* main().  An exception that no try of main catches ends the process with *)
(* a traceback on the error stream and status 1.  The f-strings of lines   *)
(* 209 and 213 nest double quotes, which Python accepts from 3.12 on; the  *)
(* model is of the program run by such an interpreter.  A write that fails *)
(* half way (disk full) is not modelled; a failing open() is.              *)
(***************************************************************************)
NoFile == [exists |-> FALSE, text |-> ""]
NoCred == [exc |-> "", key |-> <<>>, opened |-> FALSE]

Init ==
    /\ pc = "ExtractText"
    /\ pdf \in PdfFiles
    /\ env \in Environs
    /\ keyfile \in KeyFiles
    /\ document_text = ""
    /\ cred = NoCred
    /\ response = NoAnswer
    /\ gen = NoGen
    /\ summary = Unbound
    /\ lookup = "none"
    /\ cr_queries = 0
    /\ gen_calls = 0
    /\ citation = Unbound
    /\ outfile = NoFile
    /\ out_opened = FALSE
    /\ written = FALSE
    /\ stdout = <<>>
    /\ stderr = <<>>
    /\ exit_status = 0

\* sys.exit(1) after print(..., file=sys.stderr)
Fatal(msg) ==
    /\ pc' = "Done"
    /\ stderr' = Append(stderr, msg)
    /\ exit_status' = 1

\* an uncaught exception
Crash(exc) ==
    /\ pc' = "Done"
    /\ stderr' = Append(stderr, "Traceback: " \o exc)
    /\ exit_status' = 1

\* lines 148-157
ExtractText ==
    /\ pc = "ExtractText"
    /\ LET r == extract_text_from_pdf(pdf)
       IN  /\ stdout' = Append(stdout, "Reading contents")
           /\ IF r.exc = ""
              THEN /\ document_text' = r.text
                   /\ pc' = "ResolveCredential"
                   /\ UNCHANGED <<stderr, exit_status>>
              ELSE /\ Fatal(IF r.exc = "FileNotFoundError"
                            THEN "Error: PDF file not found"
                            ELSE "Error: Unabe to read PDF")
                   /\ UNCHANGED document_text
    /\ UNCHANGED <<pdf, env, keyfile, cred, response, gen, summary, lookup,
                   cr_queries, gen_calls, citation, outfile, out_opened, written>>

\* lines 159-171
ResolveCredential ==
    /\ pc = "ResolveCredential"
    /\ LET r == get_google_api_key(env, keyfile)
       IN  /\ stdout' = Append(stdout, "Getting API key")
           /\ cred' = r
           /\ IF r.exc = ""
              THEN /\ pc' = "GenerateSummary"
                   /\ UNCHANGED <<stderr, exit_status>>
              ELSE Fatal(IF r.exc = "GoogleAPIKeyError"
                         THEN "Error: could not ackquire API key"
                         ELSE "Error: unexpected error")
    /\ UNCHANGED <<pdf, env, keyfile, document_text, response, gen, summary, lookup,
                   cr_queries, gen_calls, citation, outfile, out_opened, written>>

\* lines 173-180
GenerateSummary ==
    /\ pc = "GenerateSummary"
    /\ \E answer \in BackendAnswers :
         LET r == generate_summary(answer)
         IN  /\ response' = answer
             /\ gen_calls' = gen_calls + 1
             /\ gen' = r
             /\ stdout' = Append(stdout, "Using model to generate summary") \o r.out
             /\ IF r.exc = ""
                THEN /\ summary' = r.value
                     /\ pc' = "ResolveCitation"
                     /\ UNCHANGED <<stderr, exit_status>>
                ELSE /\ Fatal("Error: unexpected error")
                     /\ UNCHANGED summary
    /\ UNCHANGED <<pdf, env, keyfile, document_text, cred, lookup,
                   cr_queries, citation, outfile, out_opened, written>>

\* lines 184-204
ResolveCitation ==
    /\ pc = "ResolveCitation"
    /\ IF summary.type # "dict"
       THEN \* summary.get raises AttributeError outside any try
            /\ Crash("AttributeError")
            /\ stdout' = Append(stdout, "Using crossref to look up citation")
            /\ UNCHANGED <<lookup, cr_queries, citation>>
       ELSE IF ~should_lookup(summary)
       THEN /\ lookup' = "skipped"
            /\ pc' = "WriteFile"
            /\ stdout' = Append(stdout, "Using crossref to look up citation")
            /\ UNCHANGED <<cr_queries, citation, stderr, exit_status>>
       ELSE \E answer \in CrossrefAnswers :
            /\ cr_queries' = cr_queries + 1
            /\ pc' = "WriteFile"
            /\ UNCHANGED <<stderr, exit_status>>
            /\ IF answer.outcome = "error"
               THEN /\ lookup' = "error"
                    /\ stdout' = stdout \o <<"Using crossref to look up citation", "Unable to find citation">>
                    /\ UNCHANGED citation
               ELSE IF answer.items = <<>>
               THEN \* results['message']['items'][0] raises IndexError, caught
                    /\ lookup' = "empty"
                    /\ stdout' = stdout \o <<"Using crossref to look up citation", "Unable to find citation">>
                    /\ UNCHANGED citation
               ELSE /\ lookup' = "found"
                    /\ citation' = answer.items[1]
                    /\ stdout' = Append(stdout, "Using crossref to look up citation")
    /\ UNCHANGED <<pdf, env, keyfile, document_text, cred, response, gen, summary,
                   gen_calls, outfile, out_opened, written>>

\* lines 206-236; open() itself can fail (permission, missing directory)
WriteFile ==
    /\ pc = "WriteFile"
    /\ out_opened' = TRUE
    /\ \E writable \in BOOLEAN :
         IF ~writable
         THEN /\ Crash("OSError")
              /\ UNCHANGED <<outfile, written>>
         ELSE LET r == write_output(summary, citation)
              IN  /\ outfile' = [exists |-> TRUE, text |-> r.text]
                  /\ IF r.exc = ""
                     THEN /\ written' = TRUE
                          /\ pc' = "Done"
                          /\ exit_status' = 0
                          /\ UNCHANGED stderr
                     ELSE /\ Crash(r.exc)
                          /\ UNCHANGED written
    /\ UNCHANGED <<pdf, env, keyfile, document_text, cred, response, gen, summary,
                   lookup, cr_queries, gen_calls, citation, stdout>>

Next ==
    \/ ExtractText
    \/ ResolveCredential
    \/ GenerateSummary
    \/ ResolveCitation
    \/ WriteFile

Spec == Init /\ [][Next]_vars

(***************************************************************************)
(* Properties.                                                             *)
(***************************************************************************)
Halted == pc = "Done" /\ exit_status = 1 /\ stderr # <<>>

NothingAfterGenerate ==
    cr_queries = 0 /\ lookup = "none" /\ citation = Unbound /\ ~out_opened /\ outfile = NoFile

ExtractFailed == pc # "ExtractText" /\ pdf.state # "ok"
CredentialResolved == pdf.state = "ok" /\ pc \notin {"ExtractText", "ResolveCredential"}
CredentialFailed == CredentialResolved /\ cred.exc # ""
BackendFailed == response.outcome = "error"
Unparseable == response.outcome = "text" /\ ~response.json

\* C1: when extract_text_from_pdf or get_google_api_key raises, or the
\* backend call fails or its text is not JSON, main stops there: status 1, a
\* line on the error stream, no later stage entered (no generate_content
\* call after an extraction or credential failure, no Crossref query, the
\* output file never opened).
C1_FatalStagesHalt ==
    /\ ExtractFailed =>
         Halted /\ cred = NoCred /\ gen_calls = 0 /\ NothingAfterGenerate
    /\ CredentialFailed =>
         Halted /\ gen_calls = 0 /\ NothingAfterGenerate
    /\ (BackendFailed \/ Unparseable) =>
         Halted /\ summary = Unbound /\ NothingAfterGenerate

C1_Witness == Unparseable /\ pc = "Done" /\ gen.exc = "UnboundLocalError"

FullRecord(s) == s.type = "dict" /\ s.keys = SummaryKeys

\* what render(summary, no citation) is to give
NoCitationText(s) ==
    "## " \o (IF s.title # "" THEN s.title ELSE "N/A") \o "\n\n"
        \o "### Authors\n" \o join(s.authors, ", ") \o "\n\n"
        \o "### Synopsis\n" \o s.synopsis \o "\n\n"
        \o "### Significance\n\n"

\* C2: with a well-formed summary and the output file writable, a lookup
\* that was skipped, raised or found nothing still ends in status 0 with
\* the whole document written, and no Reference section in it.
C2_CitationNeverFails ==
    (pc = "Done" /\ FullRecord(summary) /\ outfile.exists
        /\ lookup \in {"skipped", "error", "empty"}) =>
            /\ exit_status = 0
            /\ written
            /\ outfile.text = run_writes(summary_writes(summary), "").text

\* C3: when the process has ended, the output file is untouched or holds
\* the whole document of the run.
C3_AllOrNothing ==
    pc = "Done" =>
        \/ outfile = NoFile
        \/ written
        \/ /\ citation = Unbound
           /\ run_writes(summary_writes(summary), "").exc = ""
           /\ outfile.text = run_writes(summary_writes(summary), "").text

\* C4: with GOOGLE_API_KEY unset or empty and no credential file,
\* get_google_api_key raises GoogleAPIKeyError.
C4_NoSourceRaises ==
    (CredentialResolved /\ (~env.set \/ env.value = <<>>) /\ keyfile.state = "absent") =>
        cred.exc = "GoogleAPIKeyError"

\* C5: when the backend's text is not a JSON object (not JSON, or JSON of
\* another type), generate_summary raises and hands the driver no value.
C5_MalformedResponse ==
    (response.outcome = "text" /\ (~response.json \/ response.value.type # "dict")) =>
        gen.exc # "" /\ summary = Unbound

\* C6: for a JSON object with any subset of the keys, with the output file
\* writable, the run writes the whole file and ends with status 0.
C6_MissingKeysDefaulted ==
    (pc = "Done" /\ summary.type = "dict" /\ outfile.exists) =>
        exit_status = 0 /\ written

\* C7: with GOOGLE_API_KEY set to a non-empty value, get_google_api_key
\* returns that value and never opens the credential file, whatever the
\* file is.
C7_EnvPrecedence ==
    (CredentialResolved /\ env.set /\ env.value # <<>>) =>
        cred.exc = "" /\ cred.key = env.value /\ ~cred.opened

C7_Witness ==
    /\ CredentialResolved /\ env.set /\ env.value # <<>>
    /\ keyfile.state = "present" /\ strip(keyfile.content) = <<"k">>
    /\ cred.key = <<"e">>

\* C8 as claimed: a Crossref query is sent, and a citation exists, only
\* when the title and the first author authors[0] are both non-empty.
C8_LookupNeedsFirstAuthor ==
    (cr_queries > 0 \/ citation # Unbound) =>
        /\ summary.type = "dict"
        /\ truthy_title(summary)
        /\ truthy_authors(summary)
        /\ summary.authors[1] # ""

\* C8 amended: a Crossref query is sent, and a citation exists, only when
\* the title is a non-empty string and the authors list is non-empty; the
\* first author may be the empty string.
C8_LookupNeedsTitleAndAuthors ==
    (cr_queries > 0 \/ citation # Unbound) =>
        /\ summary.type = "dict"
        /\ truthy_title(summary)
        /\ truthy_authors(summary)
        /\ cr_queries = 1

C8_Witness ==
    lookup = "found" /\ citation # Unbound /\ cr_queries = 1 /\ summary.authors[1] = ""

\* C9: a summary with its three keys, written with no citation, gives
\* exactly the text of NoCitationText, N/A standing for an empty title.
C9_NoCitationText ==
    (pc = "Done" /\ FullRecord(summary) /\ outfile.exists /\ citation = Unbound) =>
        outfile.text = NoCitationText(summary)

RECURSIVE all_names(_)
all_names(authors) ==
    IF authors = <<>> THEN <<>> ELSE <<full_name(Head(authors))>> \o all_names(Tail(authors))

\* the Reference line of a record: every author, the quoted title, the
\* container title when there is one, the year when there is one
ReferenceLine(c) ==
    (IF "author" \in c.keys /\ c.author # <<>>
     THEN join(all_names(c.author), ", ") \o ", " ELSE "")
        \o "\"" \o c.title[1] \o ",\""
        \o (IF "container-title" \in c.keys /\ c.container # <<>> THEN c.container[1] ELSE "")
        \o (IF "published" \in c.keys /\ c.published.has_parts /\ c.published.parts # <<>>
            THEN ", " \o ToString(c.published.parts[1][1]) ELSE "")
        \o "\n"

\* C10: when the write ended with a citation, the text after the summary
\* sections is the Reference header and the line of ReferenceLine.
C10_ReferenceLine ==
    (pc = "Done" /\ written /\ citation # Unbound /\ citation.keys # {}) =>
        outfile.text = run_writes(summary_writes(summary), "").text
                          \o "### Reference\n" \o ReferenceLine(citation)

====
